---- MODULE Spec2Model ----
(***************************************************************************)
(* A model of smartconnect.js: the pairing request, the transaction POST   *)
(* and the polling loop that tracks a transaction to its outcome.          *)
(*                                                                         *)
(* The jQuery transport, the server and the clock are the environment:     *)
(* every response and every clock step is a nondeterministic choice.       *)
(* Each callback of the source (the Promise executors, the ajax success,   *)
(* error and complete handlers, the setTimeout callback) is one action.    *)
(***************************************************************************)
EXTENDS Integers, Sequences, FiniteSets

VARIABLES
    now,    \* the wall clock, Number(new Date()), in milliseconds
    ticks,  \* how many times the clock has advanced
    loop,   \* loop[l]: the closure of the call l of pollForOutcome(pollingUrl, delayed)
    call    \* call[o]: the call of operation o, sendParingRequest or createTransaction

vars == <<now, ticks, loop, call>>

(***************************************************************************)
(* Bounds of the model.                                                    *)
(***************************************************************************)
\* GETs one polling loop may issue
MaxPolls == 3
\* clock advances in one behaviour
MaxTicks == 3

(***************************************************************************)
(* Constants of the program.                                               *)
(***************************************************************************)
interval == 2 * 1000
timeout == 10 * 60 * 1000

TransactionOutcome ==
    [Accepted |-> 1, Declined |-> 2, Cancelled |-> 3, DeviceOffline |-> 4, Failed |-> 5]

\* a property that a parsed JSON object does not have, or an unset local
undefined == "undefined"
\* the value of "let transactionOutcome;" before any assignment (falsy)
NoOutcome == 0

(***************************************************************************)
(* The environment of the polling loop.                                    *)
(***************************************************************************)
\* the steps the clock may take between two events
ClockSteps == {interval, timeout - interval}

\* pollingUrl arguments: a missing one and a handle
PollingUrls == {"", "https://poll/a"}

\* the delayed argument: absent, a function that returns, a function that throws
DelayedArgs == {"none", "returns", "throws"}

TransactionStatuses == {"PENDING", "COMPLETED", undefined}
TransactionResults ==
    {"OK-ACCEPTED", "OK-DECLINED", "CANCELLED", "OK-DELAYED", "FAILED", undefined}
Results == {"OK", "FAILED-INTERFACE", undefined}

\* jqXHR.responseText of a poll: text JSON.parse rejects, the text "null", an
\* object without a data member, an object with one
Doc(kind, ts, tr, r) ==
    [kind |-> kind, transactionStatus |-> ts, TransactionResult |-> tr, Result |-> r]
PollTexts ==
    {Doc(k, undefined, undefined, undefined) : k \in {"garbage", "null", "nodata"}}
    \cup {Doc("data", ts, tr, r) :
            ts \in TransactionStatuses, tr \in TransactionResults, r \in Results}

XHR(status, text) == [status |-> status, responseText |-> text]

\* what $.ajax may hand to complete(): any 200, and failures of the transport
\* (0: no connection) or of the server, whatever their body
PollResponses ==
    {XHR(200, t) : t \in PollTexts}
    \cup {XHR(s, t) : s \in {0, 500},
                      t \in {Doc("garbage", undefined, undefined, undefined),
                             Doc("data", "COMPLETED", "OK-ACCEPTED", "OK")}}

\* the errors the try block of complete() can raise
SyntaxError == "SyntaxError"
CallbackError == "CallbackError"

(***************************************************************************)
(* JSON.parse on a poll body, and the truthiness test of line 323.         *)
(***************************************************************************)
JSON_parse_throws(text) == text.kind = "garbage"
\* a faulty HasData: only the parsed value is tested (response), not its data
HasDataAnyObject(text) == text.kind \in {"data", "nodata"}

\* response && response.data
HasData(text) == text.kind = "data"

\* the kind of a handled response, kept in the loop's history
ResponseClass(jqXHR) ==
    IF jqXHR.status # 200 THEN "non200"
    ELSE IF jqXHR.responseText.kind # "data" THEN jqXHR.responseText.kind
    ELSE IF jqXHR.responseText.transactionStatus = "COMPLETED" THEN "completed"
    ELSE IF jqXHR.responseText.transactionStatus = "PENDING"
            /\ jqXHR.responseText.TransactionResult = "OK-DELAYED" THEN "delayed"
    ELSE IF jqXHR.responseText.transactionStatus = "PENDING" THEN "pending"
    ELSE "other"

(***************************************************************************)
(* pollForOutcome                                                          *)
(***************************************************************************)
NewLoop ==
    [pollingUrl |-> "", delayed |-> "none", endTime |-> 0,
     inflight |-> 0, timers |-> <<>>, resolved |-> <<>>, rejected |-> <<>>,
     gets |-> 0, delayedCalls |-> 0, hist |-> <<>>,
     last |-> XHR(0, Doc("garbage", undefined, undefined, undefined)),
     expired |-> FALSE]

resolve(p, value) == [p EXCEPT !.resolved = Append(@, value)]
reject(p, reason) == [p EXCEPT !.rejected = Append(@, reason)]

\* a faulty Classify: the two CANCELLED cases test Result the wrong way round
ClassifySwapped(transactionResult, result) ==
    IF transactionResult = "OK-ACCEPTED" THEN TransactionOutcome.Accepted
    ELSE IF transactionResult = "OK-DECLINED" THEN TransactionOutcome.Declined
    ELSE IF transactionResult = "CANCELLED" /\ result = "FAILED-INTERFACE"
        THEN TransactionOutcome.Cancelled
    ELSE IF transactionResult = "CANCELLED" /\ result # "FAILED-INTERFACE"
        THEN TransactionOutcome.DeviceOffline
    ELSE TransactionOutcome.Failed

\* a faulty Classify: the declined code is misspelt, so a decline falls to Failed
ClassifyTypo(transactionResult, result) ==
    IF transactionResult = "OK-ACCEPTED" THEN TransactionOutcome.Accepted
    ELSE IF transactionResult = "DECLINED" THEN TransactionOutcome.Declined
    ELSE IF transactionResult = "CANCELLED" /\ result # "FAILED-INTERFACE"
        THEN TransactionOutcome.Cancelled
    ELSE IF transactionResult = "CANCELLED" /\ result = "FAILED-INTERFACE"
        THEN TransactionOutcome.DeviceOffline
    ELSE TransactionOutcome.Failed

\* lines 335-355: the outcome of a COMPLETED transaction
Classify(transactionResult, result) ==
    IF transactionResult = "OK-ACCEPTED" THEN TransactionOutcome.Accepted
    ELSE IF transactionResult = "OK-DECLINED" THEN TransactionOutcome.Declined
    ELSE IF transactionResult = "CANCELLED" /\ result # "FAILED-INTERFACE"
        THEN TransactionOutcome.Cancelled
    ELSE IF transactionResult = "CANCELLED" /\ result = "FAILED-INTERFACE"
        THEN TransactionOutcome.DeviceOffline
    ELSE TransactionOutcome.Failed

\* a faulty DelayedBranch: it tests for the code of data.Result
\* (DELAYED-TRANSACTION) where the code of TransactionResult is meant
DelayedBranchWrongCode(transactionStatus, transactionResult, delayed) ==
    /\ transactionStatus = "PENDING"
    /\ transactionResult = "DELAYED-TRANSACTION"
    /\ delayed # "none"

\* a faulty DelayedBranch: TransactionResult is not tested, so every PENDING
\* response notifies
DelayedBranchAnyPending(transactionStatus, transactionResult, delayed) ==
    /\ transactionStatus = "PENDING"
    /\ delayed # "none"

\* line 357: the test that guards the call of delayed()
DelayedBranch(transactionStatus, transactionResult, delayed) ==
    /\ transactionStatus = "PENDING"
    /\ transactionResult = "OK-DELAYED"
    /\ delayed # "none"

\* a faulty TimeLeft: the comparison is inverted
TimeLeftInverted(t, endTime) == t > endTime

\* a faulty TimeLeft: the deadline is computed anew at every test, so it never passes
TimeLeftResets(t, endTime) == t < t + timeout

\* a faulty TimeLeft: the loop gives up one interval before the deadline
TimeLeftEarly(t, endTime) == t + interval < endTime

\* line 391: is there time left?
TimeLeft(t, endTime) == t < endTime

\* a faulty Continue: the return after resolve() is missing, so the handler
\* falls through to the test of the deadline
ContinueNoReturn(p, transactionComplete, transactionOutcome, t) ==
    LET q == IF transactionComplete /\ transactionOutcome # NoOutcome
             THEN resolve(p, transactionOutcome)
             ELSE p
    IN  IF t < q.endTime
        THEN [q EXCEPT !.timers = Append(@, t + interval)]
        ELSE reject(q, "Polling timed out")

\* a faulty Continue: the deadline is tested before the outcome
ContinueDeadlineFirst(p, transactionComplete, transactionOutcome, t) ==
    IF ~TimeLeft(t, p.endTime)
        THEN reject(p, "Polling timed out")
    ELSE IF transactionComplete /\ transactionOutcome # NoOutcome
        THEN resolve(p, transactionOutcome)
    ELSE [p EXCEPT !.timers = Append(@, t + interval)]

\* a faulty Continue: the deadline is never tested, the loop polls until the
\* transaction is concluded
ContinueForever(p, transactionComplete, transactionOutcome, t) ==
    IF transactionComplete /\ transactionOutcome # NoOutcome
        THEN resolve(p, transactionOutcome)
    ELSE [p EXCEPT !.timers = Append(@, t + interval)]

\* lines 385-402: resolve, poll again, or time out
Continue(p, transactionComplete, transactionOutcome, t) ==
    IF transactionComplete /\ transactionOutcome # NoOutcome
        THEN resolve(p, transactionOutcome)
    ELSE IF TimeLeft(t, p.endTime)
        THEN [p EXCEPT !.timers = Append(@, t + interval)]
    ELSE reject(p, "Polling timed out")

\* a faulty Inspect: the call of delayed() has a try block of its own, which
\* swallows the exception
InspectSwallows(p, text, t) ==
    IF HasData(text)
    THEN IF text.transactionStatus = "COMPLETED"
         THEN Continue(p, TRUE, Classify(text.TransactionResult, text.Result), t)
         ELSE IF DelayedBranch(text.transactionStatus, text.TransactionResult, p.delayed)
         THEN Continue([p EXCEPT !.delayedCalls = @ + 1], FALSE, NoOutcome, t)
         ELSE Continue(p, FALSE, NoOutcome, t)
    ELSE reject(p, "Returned 200 but data structure not as expected")

\* lines 319-382 on a 200 whose body parsed
Inspect(p, text, t) ==
    IF HasData(text)
    THEN IF text.transactionStatus = "COMPLETED"
         THEN Continue(p, TRUE, Classify(text.TransactionResult, text.Result), t)
         ELSE IF DelayedBranch(text.transactionStatus, text.TransactionResult, p.delayed)
         THEN LET q == [p EXCEPT !.delayedCalls = @ + 1]
              IN  IF p.delayed = "throws"
                  THEN reject(q, CallbackError)
                  ELSE Continue(q, FALSE, NoOutcome, t)
         ELSE Continue(p, FALSE, NoOutcome, t)
    ELSE reject(p, "Returned 200 but data structure not as expected")

\* a faulty complete: a failed request is surfaced as an error
completeFailFast(p, jqXHR, t) ==
    LET q == [p EXCEPT !.inflight = @ - 1,
                       !.hist = Append(@, ResponseClass(jqXHR)),
                       !.last = jqXHR,
                       !.expired = ~(t < p.endTime)]
    IN  IF jqXHR.status = 200
        THEN IF JSON_parse_throws(jqXHR.responseText)
             THEN reject(q, SyntaxError)
             ELSE Inspect(q, jqXHR.responseText, t)
        ELSE reject(q, "Request failed")

\* lines 309-408: the complete callback of the GET, run at clock t
complete(p, jqXHR, t) ==
    LET q == [p EXCEPT !.inflight = @ - 1,
                       !.hist = Append(@, ResponseClass(jqXHR)),
                       !.last = jqXHR,
                       !.expired = ~(t < p.endTime)]
    IN  IF jqXHR.status = 200
        THEN IF JSON_parse_throws(jqXHR.responseText)
             THEN reject(q, SyntaxError)
             ELSE Inspect(q, jqXHR.responseText, t)
        ELSE Continue(q, FALSE, NoOutcome, t)

\* lines 296-310: checkCondition up to the $.ajax call
checkCondition(p) ==
    IF p.pollingUrl = ""
    THEN reject(p, "Polling URL needs to be submitted")
    ELSE [p EXCEPT !.inflight = @ + 1, !.gets = @ + 1]

\* a faulty pollForOutcome: endTime is a variable of the module, not of the
\* call, so starting a loop moves the deadline of the loops that are running
PollForOutcomeSharedDeadline(l, pollingUrl, delayed) ==
    /\ l \notin DOMAIN loop
    /\ loop' = [x \in DOMAIN loop \cup {l} |->
                   IF x = l
                   THEN checkCondition([NewLoop EXCEPT !.pollingUrl = pollingUrl,
                                                       !.delayed = delayed,
                                                       !.endTime = now + timeout])
                   ELSE [loop[x] EXCEPT !.endTime = now + timeout]]
    /\ UNCHANGED <<now, ticks, call>>

\* lines 279-294 and 412: the call of pollForOutcome, which runs checkCondition
PollForOutcome(l, pollingUrl, delayed) ==
    /\ l \notin DOMAIN loop
    /\ loop' = [x \in DOMAIN loop \cup {l} |->
                   IF x = l
                   THEN checkCondition([NewLoop EXCEPT !.pollingUrl = pollingUrl,
                                                       !.delayed = delayed,
                                                       !.endTime = now + timeout])
                   ELSE loop[x]]
    /\ UNCHANGED <<now, ticks, call>>

\* $.ajax completes the GET of loop l with jqXHR
Complete(l, jqXHR) ==
    /\ l \in DOMAIN loop
    /\ loop[l].inflight > 0
    /\ loop' = [loop EXCEPT ![l] = complete(@, jqXHR, now)]
    /\ UNCHANGED <<now, ticks, call>>

\* a faulty timer: setInterval where setTimeout is meant, a fired timer stays set
RemoveAtKeeps(s, i) == s

\* a timer that has fired is gone
RemoveAt(s, i) == [j \in 1..(Len(s) - 1) |-> IF j < i THEN s[j] ELSE s[j + 1]]

\* line 394: a timer set by setTimeout is due and calls checkCondition
TimerFires(l) ==
    /\ l \in DOMAIN loop
    /\ loop[l].gets < MaxPolls
    /\ \E i \in 1..Len(loop[l].timers) :
          /\ loop[l].timers[i] <= now
          /\ loop' = [loop EXCEPT ![l] =
                         checkCondition([@ EXCEPT !.timers = RemoveAt(@, i)])]
    /\ UNCHANGED <<now, ticks, call>>

\* time passes
Tick(d) ==
    /\ ticks < MaxTicks
    /\ now' = now + d
    /\ ticks' = ticks + 1
    /\ UNCHANGED <<loop, call>>

(***************************************************************************)
(* JavaScript values of the arguments of sendParingRequest and             *)
(* createTransaction, and the conversions the validation applies to them.  *)
(* A number is the fraction num/den, den a power of ten; a string is a     *)
(* sequence of characters.                                                 *)
(***************************************************************************)
JSValue(t, str, num, den) == [t |-> t, str |-> str, num |-> num, den |-> den]
JSUndefined == JSValue("undefined", <<>>, 0, 1)
JSNull == JSValue("null", <<>>, 0, 1)
JSNaN == JSValue("NaN", <<>>, 0, 1)
JSString(s) == JSValue("string", s, 0, 1)

RECURSIVE JSNumber(_, _)
\* the number n/d in lowest terms
JSNumber(n, d) ==
    IF d > 1 /\ n % 10 = 0 THEN JSNumber(n \div 10, d \div 10)
    ELSE JSValue("number", <<>>, n, d)

DigitChars == <<"0", "1", "2", "3", "4", "5", "6", "7", "8", "9">>
IsDigit(c) == \E i \in DOMAIN DigitChars : DigitChars[i] = c
DigitValue(c) == (CHOOSE i \in DOMAIN DigitChars : DigitChars[i] = c) - 1
Drop(s, k) == SubSeq(s, k + 1, Len(s))

RECURSIVE Pow10(_)
Pow10(k) == IF k = 0 THEN 1 ELSE 10 * Pow10(k - 1)

RECURSIVE DigitsPrefixLen(_)
\* the length of the longest prefix of s made of decimal digits
DigitsPrefixLen(s) ==
    IF s = <<>> \/ ~IsDigit(Head(s)) THEN 0 ELSE 1 + DigitsPrefixLen(Tail(s))

RECURSIVE DigitsValue(_)
\* the value of a sequence of decimal digits
DigitsValue(s) ==
    IF s = <<>> THEN 0
    ELSE 10 * DigitsValue(SubSeq(s, 1, Len(s) - 1)) + DigitValue(s[Len(s)])

RECURSIVE TrimLeft(_)
TrimLeft(s) == IF s # <<>> /\ Head(s) = " " THEN TrimLeft(Tail(s)) ELSE s
RECURSIVE TrimRight(_)
TrimRight(s) ==
    IF s # <<>> /\ s[Len(s)] = " " THEN TrimRight(SubSeq(s, 1, Len(s) - 1)) ELSE s

\* ToBoolean: the test "!x"
ToBoolean(v) ==
    CASE v.t = "undefined" -> FALSE
      [] v.t = "null" -> FALSE
      [] v.t = "NaN" -> FALSE
      [] v.t = "number" -> v.num # 0
      [] v.t = "string" -> v.str # <<>>

\* StringToNumber: white space is trimmed, the empty string is 0, a decimal
\* literal (sign, digits, fraction, exponent) is its value, anything else NaN
StringToNumber(str) ==
    LET s == TrimRight(TrimLeft(str))
        signed == s # <<>> /\ Head(s) \in {"+", "-"}
        sign == IF s # <<>> /\ Head(s) = "-" THEN -1 ELSE 1
        u == IF signed THEN Tail(s) ELSE s
        i == DigitsPrefixLen(u)
        afterInt == Drop(u, i)
        dot == afterInt # <<>> /\ Head(afterInt) = "."
        j == IF dot THEN DigitsPrefixLen(Tail(afterInt)) ELSE 0
        afterFrac == IF dot THEN Drop(afterInt, j + 1) ELSE afterInt
        hasExp == afterFrac # <<>> /\ Head(afterFrac) \in {"e", "E"}
        e1 == IF hasExp THEN Tail(afterFrac) ELSE <<>>
        expSigned == e1 # <<>> /\ Head(e1) \in {"+", "-"}
        expNeg == e1 # <<>> /\ Head(e1) = "-"
        e2 == IF expSigned THEN Tail(e1) ELSE e1
        k == DigitsPrefixLen(e2)
        rest == IF hasExp THEN Drop(e2, k) ELSE afterFrac
        mantissa == DigitsValue(SubSeq(u, 1, i)) * Pow10(j)
                        + DigitsValue(SubSeq(afterInt, 2, j + 1))
        exponent == DigitsValue(SubSeq(e2, 1, k))
    IN  IF s = <<>> THEN JSNumber(0, 1)
        ELSE IF i + j = 0 \/ rest # <<>> \/ (hasExp /\ k = 0) THEN JSNaN
        ELSE IF expNeg THEN JSNumber(sign * mantissa, Pow10(j) * Pow10(exponent))
        ELSE JSNumber(sign * mantissa * Pow10(exponent), Pow10(j))

\* ToNumber: the unary plus of "+amount"
ToNumber(v) ==
    CASE v.t = "undefined" -> JSNaN
      [] v.t = "null" -> JSNumber(0, 1)
      [] v.t = "NaN" -> JSNaN
      [] v.t = "number" -> v
      [] v.t = "string" -> StringToNumber(v.str)

RECURSIVE IntDigits(_)
\* the decimal digits of a natural number
IntDigits(n) ==
    IF n < 10 THEN <<DigitChars[n + 1]>>
    ELSE Append(IntDigits(n \div 10), DigitChars[(n % 10) + 1])

RECURSIVE FracDigits(_, _)
\* the decimal digits of the fraction f/d, d a power of ten
FracDigits(f, d) ==
    IF d = 1 THEN <<>>
    ELSE <<DigitChars[(f \div (d \div 10)) + 1]>> \o FracDigits(f % (d \div 10), d \div 10)

\* ToString(x), which parseInt applies to its argument first
JSToString(v) ==
    CASE v.t = "undefined" -> <<"u", "n", "d", "e", "f", "i", "n", "e", "d">>
      [] v.t = "null" -> <<"n", "u", "l", "l">>
      [] v.t = "NaN" -> <<"N", "a", "N">>
      [] v.t = "string" -> v.str
      [] v.t = "number" ->
            LET abs == IF v.num < 0 THEN -v.num ELSE v.num
            IN  (IF v.num < 0 THEN <<"-">> ELSE <<>>)
                \o IntDigits(abs \div v.den)
                \o (IF v.den = 1 THEN <<>> ELSE <<".">> \o FracDigits(abs % v.den, v.den))

\* parseInt(x) without a radix: leading white space and a sign are skipped and
\* the longest prefix of decimal digits is the value; NaN when there is none
parseInt(v) ==
    LET s == TrimLeft(JSToString(v))
        signed == s # <<>> /\ Head(s) \in {"+", "-"}
        sign == IF s # <<>> /\ Head(s) = "-" THEN -1 ELSE 1
        u == IF signed THEN Tail(s) ELSE s
        i == DigitsPrefixLen(u)
    IN  IF i = 0 THEN JSNaN ELSE JSNumber(sign * DigitsValue(SubSeq(u, 1, i)), 1)

\* a === b on two numbers: NaN equals nothing
StrictEquals(a, b) ==
    a.t = "number" /\ b.t = "number" /\ a.num * b.den = b.num * a.den

\* the amounts a caller may pass: nothing, numbers, and strings off a form field
Amounts ==
    {JSUndefined, JSNull,
     JSNumber(0, 1), JSNumber(199, 1), JSNumber(-5, 1), JSNumber(15, 10),
     JSString(<<>>),
     JSString(<<"0">>),
     JSString(<<"1", "9", "9">>),
     JSString(<<"1", ".", "5">>),
     JSString(<<"1", ".", "0">>),
     JSString(<<"1", "e", "3">>),
     JSString(<<"a", "b", "c">>),
     JSString(<<"1", "9", "a">>),
     JSString(<<" ", "7">>),
     JSString(<<"-", "5">>)}

TransactionTypes ==
    {JSUndefined, JSString(<<>>), JSString(<<"Card.Purchase">>), JSString(<<"Card.Refund">>)}

PairingCodes ==
    {JSUndefined, JSNull, JSString(<<>>), JSString(<<"0">>),
     JSString(<<"4", "8", "2", "1">>)}

(***************************************************************************)
(* The responses to the PUT of sendParingRequest and the POST of           *)
(* createTransaction.                                                      *)
(***************************************************************************)
\* jqXHR.responseText: the empty text, text JSON.parse rejects, the text
\* "null", or an object with (or without) an error and a data.PollingUrl member
Body(kind, error, data, PollingUrl) ==
    [kind |-> kind, error |-> error, data |-> data, PollingUrl |-> PollingUrl]
Bodies ==
    {Body(k, undefined, FALSE, undefined) : k \in {"empty", "garbage", "null", "object"}}
    \cup {Body("object", "device is busy", FALSE, undefined)}
    \cup {Body("object", undefined, TRUE, u) : u \in {undefined, "", "https://poll/a"}}

\* the statuses for which jQuery calls success (2xx) and error (the others)
SuccessStatuses == {200, 201}
ErrorStatuses == {0, 400, 500}
\* errorThrown: the status text of the transport, which may be empty
StatusTexts == {"", "Internal Server Error"}

Reply(status, text, errorThrown) ==
    [status |-> status, responseText |-> text, errorThrown |-> errorThrown]
SuccessReplies == {Reply(s, b, "") : s \in SuccessStatuses, b \in Bodies}
ErrorReplies == {Reply(s, b, e) : s \in ErrorStatuses, b \in Bodies, e \in StatusTexts}

TypeError == "TypeError"

\* JSON.parse(text) throws
ParseThrows(text) == text.kind \in {"empty", "garbage"}
\* jqXHR.responseText is truthy
TextTruthy(text) == text.kind # "empty"
\* a value read from a parsed body is truthy
Truthy(x) == x # undefined /\ x # ""

(***************************************************************************)
(* sendParingRequest and createTransaction                                 *)
(***************************************************************************)
Ops == {"sendParingRequest", "createTransaction"}

NewCall ==
    [arg1 |-> JSUndefined, arg2 |-> JSUndefined,
     requests |-> <<>>, inflight |-> 0, resolved |-> <<>>, rejected |-> <<>>,
     uncaught |-> <<>>, last |-> Reply(0, Body("empty", undefined, FALSE, undefined), "")]

\* $.ajax({url, type, ...})
ajax(c, type, url) ==
    [c EXCEPT !.requests = Append(@, [type |-> type, url |-> url]), !.inflight = @ + 1]

\* an exception that leaves a callback which has no try block
throw(c, error) == [c EXCEPT !.uncaught = Append(@, error)]

\* line 63: the pairing code is missing
NoPairingCode(pairingCode) == ~ToBoolean(pairingCode)

\* lines 59-134: the executor of sendParingRequest
sendParingRequest(c, pairingCode) ==
    IF NoPairingCode(pairingCode)
    THEN reject(c, "A pairing code has to be supplied.")
    ELSE ajax(c, "PUT", <<"/Pairing/">> \o pairingCode.str)

\* lines 86-111: the success callback of the PUT
pairingSuccess(c, jqXHR) ==
    IF jqXHR.status = 200
    THEN resolve(c, undefined)
    ELSE reject(c, "Invalid status code received")

\* lines 112-132: the error callback of the PUT
pairingError(c, jqXHR) ==
    IF ~TextTruthy(jqXHR.responseText) THEN reject(c, jqXHR.errorThrown)
    ELSE IF ParseThrows(jqXHR.responseText) THEN throw(c, SyntaxError)
    ELSE IF jqXHR.responseText.kind = "null" THEN throw(c, TypeError)
    ELSE IF Truthy(jqXHR.responseText.error) THEN reject(c, jqXHR.responseText.error)
    ELSE reject(c, jqXHR.errorThrown)

\* a faulty NotInteger: only a non-numeric amount is refused
NotIntegerNumeric(amount) == ToNumber(amount).t = "NaN"

\* line 166: the amount is not an integer
NotInteger(amount) == ~StrictEquals(ToNumber(amount), parseInt(amount))

\* lines 161-177: the rejection of the arguments, "" when they pass
Validate(amount, transactionType) ==
    IF ~ToBoolean(amount) THEN "The amount has to be supplied"
    ELSE IF NotInteger(amount) THEN "The provided amount is not a valid integer"
    ELSE IF ~ToBoolean(transactionType) THEN "The transactionType has to be supplied"
    ELSE ""

\* lines 150-263: the executor of createTransaction
createTransaction(c, amount, transactionType) ==
    IF Validate(amount, transactionType) # ""
    THEN reject(c, Validate(amount, transactionType))
    ELSE ajax(c, "POST", <<"/Transaction">>)

\* line 215: response && response.data && response.data.PollingUrl
HasPollingUrl(text) == text.kind = "object" /\ text.data /\ Truthy(text.PollingUrl)

\* a faulty StatusOk: every 2xx status passes
StatusOkAny2xx(status) == status >= 200 /\ status < 300

\* line 210: the status that carries a polling URL
StatusOk(status) == status = 200

\* lines 202-239: the success callback of the POST
transactionSuccess(c, jqXHR) ==
    IF StatusOk(jqXHR.status)
    THEN IF ParseThrows(jqXHR.responseText) THEN reject(c, SyntaxError)
         ELSE IF HasPollingUrl(jqXHR.responseText)
              THEN resolve(c, jqXHR.responseText.PollingUrl)
              ELSE reject(c, "Returned 200 but Polling URL missing")
    ELSE reject(c, "Invalid status code received")

\* a faulty transactionError: a failed POST is sent again
transactionErrorRetries(c, jqXHR) ==
    IF jqXHR.status >= 500 THEN ajax(c, "POST", <<"/Transaction">>)
    ELSE reject(c, jqXHR.errorThrown)

\* lines 240-260: the error callback of the POST
transactionError(c, jqXHR) ==
    IF ~TextTruthy(jqXHR.responseText) THEN reject(c, jqXHR.errorThrown)
    ELSE IF ParseThrows(jqXHR.responseText) THEN throw(c, SyntaxError)
    ELSE IF jqXHR.responseText.kind = "null" THEN throw(c, TypeError)
    ELSE reject(c, jqXHR.responseText.error)

\* the caller invokes sendParingRequest(pairingCode)
SendParingRequest(pairingCode) ==
    /\ "sendParingRequest" \notin DOMAIN call
    /\ call' = [o \in DOMAIN call \cup {"sendParingRequest"} |->
                   IF o = "sendParingRequest"
                   THEN sendParingRequest([NewCall EXCEPT !.arg1 = pairingCode],
                                          pairingCode)
                   ELSE call[o]]
    /\ UNCHANGED <<now, ticks, loop>>

\* the caller invokes createTransaction(amount, transactionType)
CreateTransaction(amount, transactionType) ==
    /\ "createTransaction" \notin DOMAIN call
    /\ call' = [o \in DOMAIN call \cup {"createTransaction"} |->
                   IF o = "createTransaction"
                   THEN createTransaction([NewCall EXCEPT !.arg1 = amount,
                                                          !.arg2 = transactionType],
                                          amount, transactionType)
                   ELSE call[o]]
    /\ UNCHANGED <<now, ticks, loop>>

\* the transport delivers the response to the request of operation o
Received(o, jqXHR) ==
    [call[o] EXCEPT !.inflight = @ - 1, !.last = jqXHR]

PairingSuccess(jqXHR) ==
    /\ "sendParingRequest" \in DOMAIN call
    /\ call["sendParingRequest"].inflight > 0
    /\ call' = [call EXCEPT !["sendParingRequest"] =
                   pairingSuccess(Received("sendParingRequest", jqXHR), jqXHR)]
    /\ UNCHANGED <<now, ticks, loop>>

PairingError(jqXHR) ==
    /\ "sendParingRequest" \in DOMAIN call
    /\ call["sendParingRequest"].inflight > 0
    /\ call' = [call EXCEPT !["sendParingRequest"] =
                   pairingError(Received("sendParingRequest", jqXHR), jqXHR)]
    /\ UNCHANGED <<now, ticks, loop>>

TransactionSuccess(jqXHR) ==
    /\ "createTransaction" \in DOMAIN call
    /\ call["createTransaction"].inflight > 0
    /\ call' = [call EXCEPT !["createTransaction"] =
                   transactionSuccess(Received("createTransaction", jqXHR), jqXHR)]
    /\ UNCHANGED <<now, ticks, loop>>

TransactionError(jqXHR) ==
    /\ "createTransaction" \in DOMAIN call
    /\ call["createTransaction"].inflight > 0
    /\ call' = [call EXCEPT !["createTransaction"] =
                   transactionError(Received("createTransaction", jqXHR), jqXHR)]
    /\ UNCHANGED <<now, ticks, loop>>

Init ==
    /\ now = 0
    /\ ticks = 0
    /\ loop = [l \in {} |-> NewLoop]
    /\ call = [o \in {} |-> NewCall]

\* one polling loop, every response
Next ==
    \/ \E u \in PollingUrls, d \in DelayedArgs : PollForOutcome("a", u, d)
    \/ \E r \in PollResponses : Complete("a", r)
    \/ TimerFires("a")
    \/ \E d \in ClockSteps : Tick(d)

Spec == Init /\ [][Next]_vars

\* one sendParingRequest and one createTransaction, every argument and response
NextTx ==
    \/ \E pairingCode \in PairingCodes : SendParingRequest(pairingCode)
    \/ \E r \in SuccessReplies : PairingSuccess(r)
    \/ \E r \in ErrorReplies : PairingError(r)
    \/ \E amount \in Amounts, transactionType \in TransactionTypes :
          CreateTransaction(amount, transactionType)
    \/ \E r \in SuccessReplies : TransactionSuccess(r)
    \/ \E r \in ErrorReplies : TransactionError(r)

SpecTx == Init /\ [][NextTx]_vars

\* two calls of pollForOutcome, each with the handle of its own transaction
Loops == {"a", "b"}
Handle(l) == IF l = "a" THEN "https://poll/a" ELSE "https://poll/b"

\* the responses two concurrent loops may get: still pending, concluded,
\* a failed request, a payload without data
ConcurrentResponses ==
    {XHR(200, Doc("data", "PENDING", undefined, undefined)),
     XHR(200, Doc("data", "COMPLETED", "OK-ACCEPTED", "OK")),
     XHR(500, Doc("garbage", undefined, undefined, undefined)),
     XHR(200, Doc("nodata", undefined, undefined, undefined))}

\* two polling loops whose responses and timers interleave
NextTwo ==
    \/ \E l \in Loops : PollForOutcome(l, Handle(l), "none")
    \/ \E l \in Loops, r \in ConcurrentResponses : Complete(l, r)
    \/ \E l \in Loops : TimerFires(l)
    \/ \E d \in ClockSteps : Tick(d)

SpecTwo == Init /\ [][NextTwo]_vars

\* a clock that moves in long steps: no more than two polls fit in the budget
LongClockSteps == {timeout \div 2, timeout}

\* one response of each kind the complete callback tells apart
EachKindOfResponse ==
    ConcurrentResponses
    \cup {XHR(200, Doc("data", "PENDING", "OK-DELAYED", undefined)),
          XHR(200, Doc("garbage", undefined, undefined, undefined))}

\* one polling loop on a clock that moves in long steps
NextLive ==
    \/ \E u \in PollingUrls, d \in DelayedArgs : PollForOutcome("a", u, d)
    \/ \E r \in EachKindOfResponse : Complete("a", r)
    \/ TimerFires("a")
    \/ \E d \in LongClockSteps : Tick(d)

\* the transport answers every GET (jQuery calls complete after success or
\* error), the browser runs every timer that is due, and time passes
SpecLive ==
    /\ Init
    /\ [][NextLive]_vars
    /\ WF_vars(\E r \in EachKindOfResponse : Complete("a", r))
    /\ WF_vars(TimerFires("a"))
    /\ WF_vars(\E d \in LongClockSteps : Tick(d))

(***************************************************************************)
(* Properties of the polling loop, checked under Spec.                     *)
(***************************************************************************)
Enumeration ==
    {TransactionOutcome.Accepted, TransactionOutcome.Declined,
     TransactionOutcome.Cancelled, TransactionOutcome.DeviceOffline,
     TransactionOutcome.Failed}

\* how many times resolve and reject have been called
Settlements(p) == Len(p.resolved) + Len(p.rejected)
Settled(p) == Settlements(p) > 0
\* nothing of the loop is pending: no GET in flight, no timer set
Quiet(p) == p.inflight = 0 /\ p.timers = <<>>

Front(h) == SubSeq(h, 1, Len(h) - 1)
Last(h) == h[Len(h)]
AllIn(h, classes) == \A i \in DOMAIN h : h[i] \in classes

\* C1: whatever the responses and the clock, a polling loop calls resolve and
\* reject at most once in all, and a value it resolves with is one of the five
\* members of TransactionOutcome.
C1_SettlesAtMostOnce ==
    \A l \in DOMAIN loop :
        /\ Settlements(loop[l]) <= 1
        /\ \A i \in DOMAIN loop[l].resolved : loop[l].resolved[i] \in Enumeration

\* a loop that resolved after several responses and a clock step
C1_Witness ==
    \E l \in DOMAIN loop :
        /\ Len(loop[l].resolved) = 1
        /\ Len(loop[l].hist) >= 2
        /\ now > 0

\* C2 as stated: a loop that polls a handle reaches no terminal state before a
\* COMPLETED response has been observed or the time budget is exhausted.
C2_NoTerminalStateBefore ==
    \A l \in DOMAIN loop :
        (loop[l].pollingUrl # "" /\ Settled(loop[l])) =>
            \/ \E i \in DOMAIN loop[l].hist : loop[l].hist[i] = "completed"
            \/ now >= loop[l].endTime

ErroredReasons ==
    {"Polling URL needs to be submitted",
     "Returned 200 but data structure not as expected",
     SyntaxError, CallbackError}

\* C2 as amended: a loop resolves with an outcome only when its latest response
\* is COMPLETED, rejects with "Polling timed out" only when that response was
\* handled at or after the deadline, and before either it settles only by
\* rejecting as Errored (no polling URL, a 200 without a data section, a 200
\* that does not parse, an exception of the delayed callback).
C2_OnlyErroredBefore ==
    \A l \in DOMAIN loop :
        LET p == loop[l]
        IN  /\ p.resolved # <<>> => p.hist # <<>> /\ Last(p.hist) = "completed"
            /\ "Polling timed out" \in {p.rejected[i] : i \in DOMAIN p.rejected}
                   => p.hist # <<>> /\ p.expired /\ now >= p.endTime
            /\ ( /\ Settled(p)
                 /\ ~ \E i \in DOMAIN p.hist : p.hist[i] = "completed"
                 /\ now < p.endTime )
                   => p.resolved = <<>> /\ \A i \in DOMAIN p.rejected :
                                               p.rejected[i] \in ErroredReasons

\* a loop that is Errored by a 200 without a data section while time remains
C2_Witness ==
    \E l \in DOMAIN loop :
        /\ loop[l].rejected = <<"Returned 200 but data structure not as expected">>
        /\ Len(loop[l].hist) >= 2
        /\ now < loop[l].endTime

\* the table of section 4.3
OutcomeTable(transactionResult, result) ==
    CASE transactionResult = "OK-ACCEPTED" -> TransactionOutcome.Accepted
      [] transactionResult = "OK-DECLINED" -> TransactionOutcome.Declined
      [] transactionResult = "CANCELLED" /\ result # "FAILED-INTERFACE"
            -> TransactionOutcome.Cancelled
      [] transactionResult = "CANCELLED" /\ result = "FAILED-INTERFACE"
            -> TransactionOutcome.DeviceOffline
      [] OTHER -> TransactionOutcome.Failed

IsCompleted(jqXHR) ==
    /\ jqXHR.status = 200
    /\ jqXHR.responseText.kind = "data"
    /\ jqXHR.responseText.transactionStatus = "COMPLETED"

\* C3: a loop whose latest response is a 200 with a data section and
\* transactionStatus COMPLETED has resolved, once, with the outcome the table
\* gives for (TransactionResult, Result), has not rejected, and polls no more.
C3_ClassifiesByTable ==
    \A l \in DOMAIN loop :
        LET p == loop[l]
        IN  (p.hist # <<>> /\ IsCompleted(p.last)) =>
                /\ p.resolved = <<OutcomeTable(p.last.responseText.TransactionResult,
                                               p.last.responseText.Result)>>
                /\ p.rejected = <<>>
                /\ Quiet(p)
                /\ p.gets = Len(p.hist)

\* a COMPLETED response without a TransactionResult, resolved as Failed, and
\* the two CANCELLED cases
C3_Witness ==
    \E l \in DOMAIN loop :
        /\ loop[l].hist # <<>>
        /\ IsCompleted(loop[l].last)
        /\ \/ /\ loop[l].last.responseText.TransactionResult = undefined
              /\ loop[l].resolved = <<TransactionOutcome.Failed>>
           \/ /\ loop[l].last.responseText.TransactionResult = "CANCELLED"
              /\ loop[l].last.responseText.Result = "FAILED-INTERFACE"
              /\ loop[l].resolved = <<TransactionOutcome.DeviceOffline>>
        /\ Len(loop[l].hist) >= 2

\* C4: with a delayed callback supplied, while every response so far is
\* PENDING/OK-DELAYED the callback has fired once per response, and when N such
\* responses are followed by COMPLETED/OK-ACCEPTED the callback has fired
\* exactly N times and the loop has resolved Accepted.
C4_DelayedThenAccepted ==
    \A l \in DOMAIN loop :
        LET p == loop[l]
        IN  p.delayed # "none" =>
                /\ AllIn(p.hist, {"delayed"}) => p.delayedCalls = Len(p.hist)
                /\ ( /\ p.hist # <<>>
                     /\ AllIn(Front(p.hist), {"delayed"})
                     /\ Last(p.hist) = "completed"
                     /\ p.last.responseText.TransactionResult = "OK-ACCEPTED" )
                       => /\ p.delayedCalls = Len(p.hist) - 1
                          /\ p.resolved = <<TransactionOutcome.Accepted>>
                          /\ p.rejected = <<>>

\* N = 2: two PENDING/OK-DELAYED responses, then COMPLETED/OK-ACCEPTED
C4_Witness ==
    \E l \in DOMAIN loop :
        /\ loop[l].hist = <<"delayed", "delayed", "completed">>
        /\ loop[l].delayedCalls = 2
        /\ loop[l].resolved = <<TransactionOutcome.Accepted>>

\* every response handled so far is a well-formed 200 with transactionStatus PENDING
OnlyPending(p) == p.hist # <<>> /\ AllIn(p.hist, {"pending", "delayed"})

C6_Step ==
    \A l \in DOMAIN loop :
        ( /\ Len(loop'[l].hist) = Len(loop[l].hist) + 1
          /\ loop'[l].last.status # 200
          /\ now < loop[l].endTime )
            => /\ loop'[l].resolved = loop[l].resolved
               /\ loop'[l].rejected = loop[l].rejected
               /\ loop'[l].delayedCalls = loop[l].delayedCalls
               /\ loop'[l].timers = <<now + interval>>
               /\ loop'[l].inflight = 0
               /\ loop'[l].gets = loop[l].gets

\* C6: handling a response whose status is not 200 while the clock is below the
\* deadline calls neither resolve nor reject, classifies nothing, and leaves
\* exactly one timer, due one interval later, and no GET in flight.
C6_FailureRetries == [][C6_Step]_vars

\* a failed response was handled in time: the loop is unsettled with one timer
C6_Witness ==
    \E l \in DOMAIN loop :
        /\ loop[l].hist # <<>>
        /\ loop[l].last.status # 200
        /\ ~loop[l].expired
        /\ ~Settled(loop[l])
        /\ Len(loop[l].timers) = 1

\* C7: when responses that are not 200 are followed by a COMPLETED/OK-DECLINED
\* response, the loop has resolved Declined and never rejected; a failed
\* response is never surfaced as an error of its own.
C7_FailuresThenDeclined ==
    \A l \in DOMAIN loop :
        LET p == loop[l]
        IN  /\ ( /\ p.hist # <<>>
                 /\ \E i \in DOMAIN Front(p.hist) : p.hist[i] = "non200"
                 /\ IsCompleted(p.last)
                 /\ p.last.responseText.TransactionResult = "OK-DECLINED" )
                   => p.resolved = <<TransactionOutcome.Declined>> /\ p.rejected = <<>>
            /\ (p.hist # <<>> /\ p.last.status # 200 /\ Settled(p))
                   => p.rejected = <<"Polling timed out">> /\ p.expired

\* failures interleaved with a PENDING response, then the decline
C7_Witness ==
    \E l \in DOMAIN loop :
        /\ loop[l].hist \in {<<"non200", "pending", "completed">>,
                             <<"pending", "non200", "completed">>,
                             <<"non200", "non200", "completed">>}
        /\ loop[l].last.responseText.TransactionResult = "OK-DECLINED"
        /\ loop[l].resolved = <<TransactionOutcome.Declined>>

(***************************************************************************)
(* Properties of sendParingRequest and createTransaction, checked under    *)
(* SpecTx.                                                                 *)
(***************************************************************************)
\* an argument that was not supplied: undefined, null or the empty string
Missing(v) == v.t \in {"undefined", "null"} \/ (v.t = "string" /\ v.str = <<>>)

\* a supplied amount that is not an integer once coerced to a number
NonInteger(v) == ~Missing(v) /\ (ToNumber(v).t = "NaN" \/ ToNumber(v).den # 1)

\* the call rejected once, never resolved and sent nothing
FailedLocally(c) == c.requests = <<>> /\ Len(c.rejected) = 1 /\ c.resolved = <<>>

\* C8: sendParingRequest with an empty pairing code, and createTransaction with
\* a missing or non-integer amount or a missing transaction type, reject and
\* issue no network request.
C8_MalformedFailsLocally ==
    /\ "sendParingRequest" \in DOMAIN call =>
           LET c == call["sendParingRequest"]
           IN  Missing(c.arg1) => FailedLocally(c)
    /\ "createTransaction" \in DOMAIN call =>
           LET c == call["createTransaction"]
           IN  (Missing(c.arg1) \/ NonInteger(c.arg1) \/ Missing(c.arg2))
                   => FailedLocally(c)

\* a fractional amount was refused without a request, and so was an empty code
C8_Witness ==
    /\ DOMAIN call = Ops
    /\ NonInteger(call["createTransaction"].arg1)
    /\ ToNumber(call["createTransaction"].arg1).t = "number"
    /\ FailedLocally(call["createTransaction"])
    /\ Missing(call["sendParingRequest"].arg1)
    /\ FailedLocally(call["sendParingRequest"])

\* C9: createTransaction tests, in this order, that the amount is present,
\* that it is an integer once coerced, and that the transaction type is
\* present; the first test that fails alone gives the rejection message, and
\* an input that passes all three is sent in a POST.
C9_ValidationOrder ==
    "createTransaction" \in DOMAIN call =>
        LET c == call["createTransaction"]
        IN  IF Missing(c.arg1)
            THEN FailedLocally(c) /\ c.rejected = <<"The amount has to be supplied">>
            ELSE IF NonInteger(c.arg1)
            THEN FailedLocally(c)
                 /\ c.rejected = <<"The provided amount is not a valid integer">>
            ELSE IF Missing(c.arg2)
            THEN FailedLocally(c)
                 /\ c.rejected = <<"The transactionType has to be supplied">>
            ELSE c.requests = <<[type |-> "POST", url |-> <<"/Transaction">>]>>

\* the success callback of the POST has handled a response
SuccessHandled(c) ==
    c.requests # <<>> /\ c.inflight = 0 /\ c.last.status \in SuccessStatuses

\* the payload carries a non-empty data.PollingUrl
CarriesHandle(text) ==
    text.kind = "object" /\ text.data /\ text.PollingUrl \notin {undefined, ""}

\* C10 as stated: createTransaction resolves, with the handle, only on a 200
\* whose payload carries a non-empty data.PollingUrl; a success response with
\* another status rejects with the wrong-status message, a 200 without a
\* handle rejects with the missing-handle message, and neither resolves.
C10_HandleOnlyOn200 ==
    "createTransaction" \in DOMAIN call =>
    LET c == call["createTransaction"]
    IN  /\ c.resolved # <<>> =>
              /\ SuccessHandled(c)
              /\ c.last.status = 200
              /\ CarriesHandle(c.last.responseText)
              /\ c.resolved = <<c.last.responseText.PollingUrl>>
        /\ (SuccessHandled(c) /\ c.last.status # 200) =>
              c.rejected = <<"Invalid status code received">> /\ c.resolved = <<>>
        /\ (SuccessHandled(c) /\ c.last.status = 200
                /\ ~CarriesHandle(c.last.responseText)) =>
              c.rejected = <<"Returned 200 but Polling URL missing">> /\ c.resolved = <<>>

\* C10 as amended: the same, except that the missing-handle message is that of
\* a 200 whose body parses as JSON and carries no handle; a 200 whose body
\* does not parse rejects with the parse error.
C10_HandleOnlyOn200Parsed ==
    "createTransaction" \in DOMAIN call =>
    LET c == call["createTransaction"]
    IN  /\ c.resolved # <<>> =>
              /\ SuccessHandled(c)
              /\ c.last.status = 200
              /\ CarriesHandle(c.last.responseText)
              /\ c.resolved = <<c.last.responseText.PollingUrl>>
        /\ (SuccessHandled(c) /\ c.last.status # 200) =>
              c.rejected = <<"Invalid status code received">> /\ c.resolved = <<>>
        /\ (SuccessHandled(c) /\ c.last.status = 200
                /\ ~CarriesHandle(c.last.responseText)) =>
              /\ c.resolved = <<>>
              /\ c.rejected =
                    IF c.last.responseText.kind \in {"null", "object"}
                    THEN <<"Returned 200 but Polling URL missing">>
                    ELSE <<SyntaxError>>

\* a 200 with an empty data.PollingUrl was refused with the missing-handle message
C10_Witness ==
    "createTransaction" \in DOMAIN call /\
    LET c == call["createTransaction"]
    IN  /\ SuccessHandled(c)
        /\ c.last.status = 200
        /\ c.last.responseText.kind = "object"
        /\ c.last.responseText.data
        /\ c.last.responseText.PollingUrl = ""
        /\ c.rejected = <<"Returned 200 but Polling URL missing">>

\* the error callback of the operation has handled a 4xx or 5xx response
ErrorHandled(c) ==
    c.requests # <<>> /\ c.inflight = 0 /\ c.last.status >= 400

\* the body parses as JSON and has an error member
HasErrorField(text) == text.kind = "object" /\ text.error # undefined

\* C11: once sendParingRequest or createTransaction has handled a response
\* that is not a 2xx, the promise is rejected, exactly once: with the error
\* member of the body when the body parses as JSON and has one, and with the
\* status text of the transport (errorThrown) when the body is empty, does not
\* parse, or has no such member; no exception escapes and nothing is left
\* unsettled.
C11_ErrorAlwaysRejects ==
    \A o \in DOMAIN call :
        LET c == call[o]
        IN  ErrorHandled(c) =>
                /\ c.uncaught = <<>>
                /\ c.resolved = <<>>
                /\ c.rejected = <<IF HasErrorField(c.last.responseText)
                                  THEN c.last.responseText.error
                                  ELSE c.last.errorThrown>>

\* the latest response is a 200 whose payload parsed and has no data section
LacksData(p) == p.hist # <<>> /\ Last(p.hist) \in {"null", "nodata"}

\* C12: a loop whose latest response is a 200 whose parsed payload lacks the
\* data section has rejected, once, with the data-structure message, has not
\* resolved, and has neither a timer nor a GET left, whatever the clock.
C12_NoDataIsErrored ==
    \A l \in DOMAIN loop :
        LET p == loop[l]
        IN  LacksData(p) =>
                /\ p.rejected = <<"Returned 200 but data structure not as expected">>
                /\ p.resolved = <<>>
                /\ Quiet(p)
                /\ p.gets = Len(p.hist)

\* an object without a data member arrives as the third response, with
\* nearly all of the budget left, and ends the loop
C12_Witness ==
    \E l \in DOMAIN loop :
        /\ Len(loop[l].hist) = 3
        /\ Last(loop[l].hist) = "nodata"
        /\ now > 0
        /\ now + interval < loop[l].endTime
        /\ Len(loop[l].rejected) = 1
        /\ Quiet(loop[l])

\* C13: a polling loop has at most one GET in flight and at most one timer
\* set, never both; the GETs it has issued are the responses it has handled
\* plus the one in flight, so a GET is issued only after the response to the
\* one before it has been handled; and a settled loop has neither.
C13_OneIterationAtATime ==
    \A l \in DOMAIN loop :
        LET p == loop[l]
        IN  /\ p.inflight \in {0, 1}
            /\ Len(p.timers) \in {0, 1}
            /\ p.inflight + Len(p.timers) <= 1
            /\ p.gets = Len(p.hist) + p.inflight
            /\ Settled(p) => Quiet(p)

\* the third GET is in flight after two handled responses, and no timer is set
C13_Witness ==
    \E l \in DOMAIN loop :
        /\ loop[l].gets = 3
        /\ Len(loop[l].hist) = 2
        /\ loop[l].inflight = 1
        /\ loop[l].timers = <<>>

\* the operation has sent its request and handled the response
Handled(c) == c.requests # <<>> /\ c.inflight = 0

\* C14: a call of sendParingRequest or createTransaction issues at most one
\* request: a PUT, respectively a POST, and only if the arguments pass; once
\* the response is handled, whatever it is, no request is in flight and none
\* is issued again.
C14_OneRequestPerInvocation ==
    \A o \in DOMAIN call :
        LET c == call[o]
        IN  /\ Len(c.requests) <= 1
            /\ c.inflight <= Len(c.requests)
            /\ \A i \in DOMAIN c.requests :
                  c.requests[i].type = (IF o = "sendParingRequest" THEN "PUT" ELSE "POST")
            /\ c.requests = <<>> => Len(c.rejected) = 1

\* the PUT was answered by a 5xx with a body that is not JSON and the POST by
\* a 2xx that is not a 200: each operation has sent one request and no more
C14_Witness ==
    /\ DOMAIN call = Ops
    /\ Handled(call["sendParingRequest"])
    /\ call["sendParingRequest"].last.status = 500
    /\ call["sendParingRequest"].last.responseText.kind = "garbage"
    /\ Len(call["sendParingRequest"].requests) = 1
    /\ Handled(call["createTransaction"])
    /\ call["createTransaction"].last.status = 201
    /\ Len(call["createTransaction"].requests) = 1

(***************************************************************************)
(* Properties of concurrent polling loops, checked under SpecTwo.          *)
(***************************************************************************)
\* the terminal state of a loop as its own responses and deadline give it
OwnTerminalState(p) ==
    IF p.pollingUrl = ""
        THEN p.resolved = <<>> /\ p.rejected = <<"Polling URL needs to be submitted">>
    ELSE IF p.hist = <<>> THEN ~Settled(p)
    ELSE CASE Last(p.hist) = "completed" ->
                  /\ p.rejected = <<>>
                  /\ p.resolved = <<OutcomeTable(p.last.responseText.TransactionResult,
                                                 p.last.responseText.Result)>>
           [] Last(p.hist) \in {"null", "nodata"} ->
                  /\ p.resolved = <<>>
                  /\ p.rejected = <<"Returned 200 but data structure not as expected">>
           [] Last(p.hist) = "garbage" ->
                  p.resolved = <<>> /\ p.rejected = <<SyntaxError>>
           [] Last(p.hist) = "delayed" /\ p.delayed = "throws" ->
                  p.resolved = <<>> /\ p.rejected = <<CallbackError>>
           [] OTHER ->
                  /\ p.resolved = <<>>
                  /\ p.rejected = IF p.expired THEN <<"Polling timed out">> ELSE <<>>

\* the step of C15
C15_Step ==
    /\ \A l \in DOMAIN loop : \A m \in DOMAIN loop \ {l} :
          loop'[l] # loop[l] => loop'[m] = loop[m]
    /\ \A l \in DOMAIN loop' \ DOMAIN loop : \A m \in DOMAIN loop :
          loop'[m] = loop[m]
    /\ \A m \in DOMAIN loop : now' # now => loop'[m] = loop[m]
    /\ \A m \in DOMAIN loop' : OwnTerminalState(loop'[m])

\* C15: with two polling loops running, a step of one loop (its start, a
\* response, a timer, its settling) and a step of the clock leave every field
\* of the other loop as it was (deadline, GET in flight, timer, settlement),
\* and each loop's terminal state is the one its own latest response and its
\* own deadline give.
C15_LoopsAreIndependent == [][C15_Step]_vars

\* both loops ran with different deadlines and ended differently: one timed
\* out at its own deadline while the other, started later, is still polling
C15_Witness ==
    /\ DOMAIN loop = Loops
    /\ \E l \in Loops, m \in Loops :
          /\ loop[l].endTime < loop[m].endTime
          /\ loop[l].rejected = <<"Polling timed out">>
          /\ Len(loop[l].hist) >= 2
          /\ ~Settled(loop[m])
          /\ loop[m].hist # <<>>
          /\ loop[m].inflight + Len(loop[m].timers) = 1

(***************************************************************************)
(* Properties of the deadline and of the delayed callback, checked under   *)
(* Spec.                                                                   *)
(***************************************************************************)
\* loop l handles a response in this step
Handles(l) == l \in DOMAIN loop /\ Len(loop'[l].hist) = Len(loop[l].hist) + 1

\* the iteration on a response of this class reaches no terminal outcome:
\* the transaction is not concluded and nothing raised an error
NoTerminalOutcome(class, delayed) ==
    \/ class \in {"non200", "pending", "other"}
    \/ class = "delayed" /\ delayed # "throws"

TimedOut(p) == "Polling timed out" \in {p.rejected[i] : i \in DOMAIN p.rejected}

\* the step of C16
C16_Step ==
    /\ \A l \in DOMAIN loop' \ DOMAIN loop : loop'[l].endTime = now + timeout
    /\ \A l \in DOMAIN loop : loop'[l].endTime = loop[l].endTime
    /\ \A l \in DOMAIN loop :
          (TimedOut(loop'[l]) /\ ~TimedOut(loop[l])) =>
              /\ Handles(l)
              /\ NoTerminalOutcome(Last(loop'[l].hist), loop[l].delayed)
              /\ now >= loop[l].endTime
    /\ \A l \in DOMAIN loop :
          ( /\ Handles(l)
            /\ NoTerminalOutcome(Last(loop'[l].hist), loop[l].delayed)
            /\ now < loop[l].endTime )
              => /\ ~Settled(loop'[l])
                 /\ loop'[l].timers = <<now + interval>>
                 /\ loop'[l].inflight = 0

\* C16: the deadline is set when the loop starts, to the clock plus the
\* ten-minute budget, and no later step changes it; the loop times out only in
\* a step that handles a response which gives no terminal outcome while the
\* clock is at or past the deadline; and when such a response is handled with
\* the clock below the deadline the loop stays unsettled with one timer, due
\* one two-second interval later.
C16_DeadlineIsFixed == [][C16_Step]_vars

\* a loop started after the clock had moved was polled again after a delayed
\* notification and timed out at the very millisecond of its deadline
C16_Witness ==
    \E l \in DOMAIN loop :
        /\ loop[l].endTime > timeout
        /\ now = loop[l].endTime
        /\ "delayed" \in {loop[l].hist[i] : i \in DOMAIN loop[l].hist}
        /\ loop[l].delayedCalls >= 1
        /\ TimedOut(loop[l])

\* the responses of a transaction that is not concluded, other than the one
\* that notifies: a 200 with a data section whose status is not COMPLETED
NotCompletedNoNotice(class, delayed) ==
    \/ class \in {"pending", "other"}
    \/ class = "delayed" /\ delayed = "none"

\* the step of C17
C17_Step ==
    \A l \in DOMAIN loop :
        LET p == loop[l]
            q == loop'[l]
        IN  /\ q.delayedCalls \in {p.delayedCalls, p.delayedCalls + 1}
            /\ q.delayedCalls = p.delayedCalls + 1 =>
                  /\ Handles(l)
                  /\ q.last.status = 200
                  /\ q.last.responseText.kind = "data"
                  /\ q.last.responseText.transactionStatus = "PENDING"
                  /\ q.last.responseText.TransactionResult = "OK-DELAYED"
                  /\ p.delayed # "none"
            /\ (Handles(l) /\ Last(q.hist) = "delayed" /\ p.delayed # "none") =>
                  q.delayedCalls = p.delayedCalls + 1
            /\ (Handles(l) /\ NotCompletedNoNotice(Last(q.hist), p.delayed)) =>
                  /\ q.delayedCalls = p.delayedCalls
                  /\ q.resolved = p.resolved
                  /\ q.inflight = 0
                  /\ IF now < p.endTime
                     THEN q.rejected = p.rejected /\ q.timers = <<now + interval>>
                     ELSE q.rejected = <<"Polling timed out">> /\ q.timers = <<>>

\* C17: the delayed callback is called only in a step that handles a 200
\* whose payload has transactionStatus PENDING and TransactionResult
\* OK-DELAYED, with a callback supplied, and once in such a step; handling any
\* other response of a transaction that is not COMPLETED, or PENDING/OK-DELAYED
\* without a callback, calls nothing, resolves nothing and goes on to the next
\* poll (or, once the deadline has passed, to the timeout).
C17_DelayedOnlyWhenDelayed == [][C17_Step]_vars

\* on PENDING with a result other than OK-DELAYED, after a notification, a
\* loop with a callback made no second call and set the timer of its next poll
C17_Witness ==
    \E l \in DOMAIN loop :
        /\ loop[l].delayed = "returns"
        /\ loop[l].hist = <<"delayed", "pending">>
        /\ loop[l].last.responseText.TransactionResult = "OK-ACCEPTED"
        /\ loop[l].delayedCalls = 1
        /\ ~Settled(loop[l])
        /\ Len(loop[l].timers) = 1

\* C18: a loop whose latest response is COMPLETED and was handled with the
\* clock at or past the deadline has resolved with the outcome of the table
\* and has not rejected: it has not timed out.
C18_OutcomeBeforeDeadline ==
    \A l \in DOMAIN loop :
        LET p == loop[l]
        IN  (p.hist # <<>> /\ IsCompleted(p.last) /\ p.expired) =>
                /\ p.resolved = <<OutcomeTable(p.last.responseText.TransactionResult,
                                               p.last.responseText.Result)>>
                /\ p.rejected = <<>>
                /\ ~TimedOut(p)

\* a decline that arrived after the deadline, following a response handled in
\* time, was resolved as Declined
C18_Witness ==
    \E l \in DOMAIN loop :
        /\ Len(loop[l].hist) >= 2
        /\ IsCompleted(loop[l].last)
        /\ loop[l].expired
        /\ now > loop[l].endTime
        /\ loop[l].last.responseText.TransactionResult = "OK-DECLINED"
        /\ loop[l].resolved = <<TransactionOutcome.Declined>>

\* C19: a loop whose delayed callback throws and whose latest response is
\* PENDING/OK-DELAYED has called the callback, has rejected, once, with the
\* exception, has not resolved, and has neither a timer nor a GET left,
\* whatever time remains.
C19_CallbackExceptionIsErrored ==
    \A l \in DOMAIN loop :
        LET p == loop[l]
        IN  (p.delayed = "throws" /\ p.hist # <<>> /\ Last(p.hist) = "delayed") =>
                /\ p.delayedCalls = 1
                /\ p.rejected = <<CallbackError>>
                /\ p.resolved = <<>>
                /\ Quiet(p)
                /\ p.gets = Len(p.hist)

\* the callback threw on the second response, with most of the budget left
C19_Witness ==
    \E l \in DOMAIN loop :
        /\ loop[l].delayed = "throws"
        /\ Len(loop[l].hist) = 2
        /\ Last(loop[l].hist) = "delayed"
        /\ loop[l].rejected = <<CallbackError>>
        /\ now + interval < loop[l].endTime
        /\ Quiet(loop[l])

(***************************************************************************)
(* Termination of the polling loop, checked under SpecLive.                *)
(***************************************************************************)
\* the clock value that the clock of SpecLive is sure to reach
Horizon == MaxTicks * (timeout \div 2)

\* the loop has started and its deadline is one the clock will pass
Started(l) == l \in DOMAIN loop /\ loop[l].endTime <= Horizon
Terminal(l) == l \in DOMAIN loop /\ Settled(loop[l]) /\ Quiet(loop[l])

\* C20: when every GET is answered, every due timer fires and the clock
\* advances past the deadline, a polling loop eventually settles (resolved
\* with an outcome, timed out, or errored) with nothing left pending; the
\* deadline is tested only when a response is handled: a step of the clock
\* changes nothing of a loop, and a loop with a GET in flight is unsettled
\* whatever the clock.
C20_EventuallyTerminal ==
    /\ Started("a") ~> Terminal("a")
    /\ [][now' # now => loop' = loop]_vars
    /\ [](\A l \in DOMAIN loop : loop[l].inflight > 0 => ~Settled(loop[l]))

\* the first GET stayed in flight while the whole budget elapsed and the loop
\* was still polling; it timed out only when the response was handled
C20_Witness ==
    \E l \in DOMAIN loop :
        /\ Started(l)
        /\ Len(loop[l].hist) = 1
        /\ loop[l].expired
        /\ now > loop[l].endTime
        /\ TimedOut(loop[l])
        /\ Quiet(loop[l])

====
